---- MODULE Spec2Model ----
(***************************************************************************)
(* A model of alert-manager-api: the Alert value object and its builder    *)
(* (src/src/types.rs), the error taxonomy and its retryability verdict     *)
(* (src/src/errors.rs) and the delivery client (src/src/client.rs).        *)
(*                                                                         *)
(* Three specifications share the variables:                               *)
(*   SpecAlert  one alert is constructed and taken through builder calls;  *)
(*   SpecErr    an error value is made and classified by is_retryable;     *)
(*   Spec       callers push batches through one shared client.            *)
(***************************************************************************)
EXTENDS Integers, Sequences, FiniteSets, TLC

VARIABLES
    \* ---- SpecAlert
    ctor,       \* how the alert was made: <<"new", n>>, <<"default">>, <<"literal">>
    trace,      \* trace[1] is the constructed alert, trace[i+1] the alert after ops[i]
    ops,        \* the builder calls applied so far
    \* ---- SpecErr
    err,        \* the error value under classification
    verdict,    \* {} before is_retryable ran, {b} after it returned b
    received,   \* {} for an error made directly, {s} for one a push made from a response with status s
    \* ---- Spec
    given_url,  \* the api_url argument new or with_client was called with
    api_url,    \* AlertmanagerClient.api_url
    transparent,\* whether reqwest_middleware::Error forwards source() to the wrapped error
    pc,         \* per caller: "idle", "send" (awaiting send), "text" (awaiting text), "done", "panicked"
    call,       \* per caller: the number of the current call (0 before the first)
    batch,      \* per caller: the batch the current call was made with
    outcome,    \* per caller: what the transport did with the call's request
    status,     \* per caller: the status of the response in hand ({} when none)
    result,     \* per caller: what the call returned
    retry,      \* per caller: {} or {is_retryable() of the returned error}
    requests,   \* every request handed to the transport, in order
    calls       \* [total |-> calls started, nonempty |-> calls started with a non-empty batch]

alertVars  == <<ctor, trace, ops>>
errVars    == <<err, verdict, received>>
buildVars  == <<given_url, api_url, transparent>>
callVars   == <<pc, call, batch, outcome, status, result, retry, requests, calls>>
clientVars == <<buildVars, callVars>>
vars       == <<ctor, trace, ops, err, verdict, received, given_url, api_url, transparent,
                pc, call, batch, outcome, status, result, retry, requests, calls>>

\* ---------------------------------------------------------------- bounds
MaxOps == 3
MaxCalls == 2

\* ------------------------------------------------------------ Option<T>
None == {}
Some(x) == {x}
IsSome(o) == o # {}
Unwrap(o) == CHOOSE x \in o : TRUE

\* ------------------------------------------------------------- strings
\* Identifiers whose spelling a conversion works on are sequences of characters.
Lowers == <<"a","b","c","d","e","f","g","h","i","j","k","l","m",
            "n","o","p","q","r","s","t","u","v","w","x","y","z">>
Uppers == <<"A","B","C","D","E","F","G","H","I","J","K","L","M",
            "N","O","P","Q","R","S","T","U","V","W","X","Y","Z">>

IndexIn(seq, c) == IF \E i \in 1..Len(seq) : seq[i] = c
                   THEN CHOOSE i \in 1..Len(seq) : seq[i] = c
                   ELSE 0

ToAsciiUppercase(c) == IF IndexIn(Lowers, c) > 0 THEN Uppers[IndexIn(Lowers, c)] ELSE c
ToAsciiLowercase(c) == IF IndexIn(Uppers, c) > 0 THEN Lowers[IndexIn(Uppers, c)] ELSE c

\* serde's RenameRule::PascalCase on a field name: a character after '_' (and the
\* first) is upper-cased, '_' is dropped, every other character is kept.
RECURSIVE PascalFrom(_, _, _)
PascalFrom(field, i, capitalize) ==
    IF i > Len(field) THEN <<>>
    ELSE IF field[i] = "_" THEN PascalFrom(field, i + 1, TRUE)
    ELSE IF capitalize THEN <<ToAsciiUppercase(field[i])>> \o PascalFrom(field, i + 1, FALSE)
    ELSE <<field[i]>> \o PascalFrom(field, i + 1, FALSE)

\* serde's RenameRule::CamelCase: the PascalCase name with its first character lower-cased.
CamelCase(field) ==
    LET pascal == PascalFrom(field, 1, TRUE)
    IN  IF pascal = <<>> THEN <<>>
        ELSE <<ToAsciiLowercase(pascal[1])>> \o SubSeq(pascal, 2, Len(pascal))

\* The fields of struct Alert, as spelled in the source.
F_labels        == <<"l","a","b","e","l","s">>
F_annotations   == <<"a","n","n","o","t","a","t","i","o","n","s">>
F_starts_at     == <<"s","t","a","r","t","s","_","a","t">>
F_ends_at       == <<"e","n","d","s","_","a","t">>
F_generator_url == <<"g","e","n","e","r","a","t","o","r","_","u","r","l">>

\* --------------------------------------------------------------- inputs
Names      == {"HighCPU", "DiskFull"}
LabelKeys  == {"alertname", "severity", "service"}
AnnKeys    == {"summary", "runbook"}
Texts      == {"x", "y"}
Times      == {"t1", "t2"}
\* What Utc::now() reads when the alert is constructed; later readings are in Times.
ConstructedAt == "t0"
Severities == {"Critical", "Warning", "Info"}

\* impl Display for AlertSeverity
SeverityToString(severity) ==
    CASE severity = "Critical" -> "critical"
      [] severity = "Warning"  -> "warning"
      [] severity = "Info"     -> "info"

\* ------------------------------------------------------------ HashMap
EmptyMap == [k \in {} |-> ""]
\* HashMap::insert: the key is added, or its value replaced.
Insert(map, k, v) == [x \in DOMAIN map \cup {k} |-> IF x = k THEN v ELSE map[x]]
\* HashMap::get
Get(map, k) == IF k \in DOMAIN map THEN Some(map[k]) ELSE None

\* ---------------------------------------------------------------- Alert
\* Alert::new with the alertname label left out.
AlertNewUnnamed(alertname, now) ==
    [labels        |-> EmptyMap,
     annotations   |-> EmptyMap,
     starts_at     |-> Some(now),
     ends_at       |-> None,
     generator_url |-> None]

\* Alert::new; now is the value Utc::now() returns.
AlertNew(alertname, now) ==
    [labels        |-> Insert(EmptyMap, "alertname", alertname),
     annotations   |-> EmptyMap,
     starts_at     |-> Some(now),
     ends_at       |-> None,
     generator_url |-> None]

\* impl Default for Alert
AlertDefault(now) ==
    [labels        |-> EmptyMap,
     annotations   |-> EmptyMap,
     starts_at     |-> Some(now),
     ends_at       |-> None,
     generator_url |-> None]

\* The fields are pub: a caller may write the struct out, every optional field absent.
AlertLiteral ==
    [labels        |-> EmptyMap,
     annotations   |-> EmptyMap,
     starts_at     |-> None,
     ends_at       |-> None,
     generator_url |-> None]

\* with_label that keeps the value a key already has.
WithLabelKeepingFirst(a, key, value) ==
    IF key \in DOMAIN a.labels THEN a ELSE [a EXCEPT !.labels = Insert(a.labels, key, value)]
\* with_annotation that starts the map afresh.
WithAnnotationAlone(a, key, value) == [a EXCEPT !.annotations = Insert(EmptyMap, key, value)]
\* resolve that keeps an end time already set.
ResolveIfUnset(a, now) == IF IsSome(a.ends_at) THEN a ELSE [a EXCEPT !.ends_at = Some(now)]

WithLabel(a, key, value)  == [a EXCEPT !.labels = Insert(a.labels, key, value)]
WithSeverity(a, severity) == WithLabel(a, "severity", SeverityToString(severity))
WithAnnotation(a, key, value) == [a EXCEPT !.annotations = Insert(a.annotations, key, value)]
WithSummary(a, summary)   == WithAnnotation(a, "summary", summary)
WithDescription(a, description) == WithAnnotation(a, "description", description)
WithGeneratorUrl(a, url)  == [a EXCEPT !.generator_url = Some(url)]
WithStartsAt(a, time)     == [a EXCEPT !.starts_at = Some(time)]
WithEndsAt(a, time)       == [a EXCEPT !.ends_at = Some(time)]
\* resolve; now is the value Utc::now() returns.
Resolve(a, now)           == [a EXCEPT !.ends_at = Some(now)]
\* Alert::alertname
Alertname(a)              == Get(a.labels, "alertname")

\* #[derive(Serialize)] on Alert: the JSON object, as a function from key to value.
\* Every field is renamed by rename_all = "camelCase"; labels and annotations are
\* always written, the three optional fields only when they are Some.
Serialize(a) ==
    LET always   == {<<CamelCase(F_labels), a.labels>>,
                     <<CamelCase(F_annotations), a.annotations>>}
        starts   == IF IsSome(a.starts_at)
                    THEN {<<CamelCase(F_starts_at), Unwrap(a.starts_at)>>} ELSE {}
        ends     == IF IsSome(a.ends_at)
                    THEN {<<CamelCase(F_ends_at), Unwrap(a.ends_at)>>} ELSE {}
        gen      == IF IsSome(a.generator_url)
                    THEN {<<CamelCase(F_generator_url), Unwrap(a.generator_url)>>} ELSE {}
        members  == always \cup starts \cup ends \cup gen
    IN  [k \in {m[1] : m \in members} |-> (CHOOSE m \in members : m[1] = k)[2]]

\* ---------------------------------------------------- AlertmanagerError
\* An error value is a record tagged by its variant. The cause a Request error
\* carries is a reqwest_middleware::Error: its variant and the chain of errors
\* it wraps, outermost first. The nodes of a chain:
\*   "reqwest::Error"  a reqwest::Error
\*   "connect"         the transport's error for a failed connection
\*   "TimedOut"        the transport's marker for an elapsed timeout
\*   "other"           any other error
U16Max == 65535

ApiError(s, message) == [kind |-> "Api", status |-> s, message |-> message]
RequestError(source) == [kind |-> "Request", source |-> source]
SerializeError       == [kind |-> "Serialize"]
BuildHttpClientError == [kind |-> "BuildHttpClient"]

Mw(variant, chain) == [variant |-> variant, chain |-> chain]

\* reqwest::Error::is_connect and is_timeout look through the sources of the
\* reqwest::Error, given here as the chain below it.
IsConnect(sources) == \E i \in 1..Len(sources) : sources[i] = "connect"
IsTimeout(sources) == \E i \in 1..Len(sources) : sources[i] = "TimedOut"

\* StdError::source of the reqwest_middleware::Error, as a chain (<<>> for None).
\* A release whose variants are #[error(transparent)] forwards to the source of
\* the wrapped error; an earlier one answers the wrapped error itself.
SourceOf(mw) == IF transparent THEN Tail(mw.chain) ELSE mw.chain

\* is_retryable with the boundary off by one.
IsRetryableAbove500(e) ==
    CASE e.kind = "Request" ->
            LET source == SourceOf(e.source)
            IN  IF source # <<>> /\ Head(source) = "reqwest::Error"
                THEN IsConnect(Tail(source)) \/ IsTimeout(Tail(source))
                ELSE FALSE
      [] e.kind = "Api" -> e.status > 500
      [] OTHER -> FALSE

\* AlertmanagerError::is_retryable
IsRetryable(e) ==
    CASE e.kind = "Request" ->
            LET source == SourceOf(e.source)
            IN  IF source # <<>> /\ Head(source) = "reqwest::Error"
                THEN IsConnect(Tail(source)) \/ IsTimeout(Tail(source))
                ELSE FALSE
      [] e.kind = "Api" -> e.status >= 500
      [] OTHER -> FALSE

\* ------------------------------------------------------------ transport
\* What send() can fail with: a reqwest::Error from the HTTP client (a timeout, a
\* refused connection, a request that could not be built) or an error a
\* caller-supplied middleware raised.
TransportErrors ==
    {Mw("Reqwest", <<"reqwest::Error", "TimedOut">>),
     Mw("Reqwest", <<"reqwest::Error", "connect", "other">>),
     Mw("Reqwest", <<"reqwest::Error">>),
     Mw("Middleware", <<"other">>)}

\* Status codes a response can carry.
HttpStatuses == 100..999
\* The ones the client is driven with.
RespStatuses == {200, 299, 300, 400, 503}
\* StatusCode::is_success
IsSuccess(s) == 200 <= s /\ s < 300

\* response.text(): Some(body) or, when the body cannot be read, None.
TextOutcomes == {Some("Bad request"), None}
\* Result::unwrap_or_default on the body text
UnwrapOrDefault(t) == IF IsSome(t) THEN Unwrap(t) ELSE ""

\* The error push_alerts makes of a non-success response.
ApiErrorFrom(s, text) == ApiError(s, UnwrapOrDefault(text))

\* ------------------------------------------------------------------ Url
Url(origin, path, cannot_be_a_base) ==
    [origin |-> origin, path |-> path, cannot_be_a_base |-> cannot_be_a_base]

BaseUrls ==
    {Url("http://localhost:9093", <<>>, FALSE),
     Url("http://example.com", <<"alertmanager">>, FALSE),
     Url("mailto:", <<"ops@example.com">>, TRUE)}

AlertsPath == <<"api", "v2", "alerts">>

\* Url::join with a reference that is an absolute path: an error on a base that
\* cannot be a base, else the base with its whole path replaced by the reference's.
Join(base, path) ==
    IF base.cannot_be_a_base THEN None ELSE Some([base EXCEPT !.path = path])

\* --------------------------------------------------- AlertmanagerClient
\* new and with_client: Self { client, api_url } keeps the argument as it is.
Constructed(url) ==
    /\ given_url = url
    /\ api_url = url

\* AlertmanagerClient::api_url
ApiUrl == api_url

Callers == {"c1", "c2"}

A1 == WithSeverity(AlertNew("HighCPU", ConstructedAt), "Info")
A2 == Resolve(WithGeneratorUrl(AlertNew("DiskFull", ConstructedAt), "x"), "t1")
Batches == {<<>>, <<A1, A2>>}

\* .json(&alerts): the JSON array of the serialized alerts.
Json(alerts) == [i \in 1..Len(alerts) |-> Serialize(alerts[i])]

Ok == [kind |-> "Ok"]

Begin(p, b) ==
    /\ pc[p] \in {"idle", "done"}
    /\ calls.total < MaxCalls
    /\ call' = [call EXCEPT ![p] = calls.total + 1]
    /\ batch' = [batch EXCEPT ![p] = b]
    /\ calls' = [total |-> calls.total + 1,
                 nonempty |-> calls.nonempty + (IF b = <<>> THEN 0 ELSE 1)]
    /\ outcome' = [outcome EXCEPT ![p] = {}]
    /\ status' = [status EXCEPT ![p] = {}]
    /\ retry' = [retry EXCEPT ![p] = {}]

\* The request push_alerts builds and hands to the transport.
Post(url, alerts) ==
    [call |-> calls.total + 1, method |-> "POST", url |-> url, body |-> Json(alerts)]

\* push_alerts without the early return on an empty batch.
PushAlertsAlwaysSends(p, alerts) ==
    /\ Begin(p, alerts)
    /\ LET url == Join(api_url, AlertsPath)
       IN  IF url = None
           THEN /\ pc' = [pc EXCEPT ![p] = "panicked"]
                /\ result' = [result EXCEPT ![p] = {}]
                /\ UNCHANGED requests
           ELSE /\ requests' = Append(requests, Post(Unwrap(url), alerts))
                /\ pc' = [pc EXCEPT ![p] = "send"]
                /\ result' = [result EXCEPT ![p] = {}]
    /\ UNCHANGED <<alertVars, errVars, buildVars>>

\* push_alerts that keeps the joined endpoint as the client's URL.
PushAlertsRebasing(p, alerts) ==
    /\ Begin(p, alerts)
    /\ IF alerts = <<>>
       THEN /\ pc' = [pc EXCEPT ![p] = "done"]
            /\ result' = [result EXCEPT ![p] = {Ok}]
            /\ UNCHANGED <<requests, api_url>>
       ELSE LET url == Join(api_url, AlertsPath)
            IN  IF url = None
                THEN /\ pc' = [pc EXCEPT ![p] = "panicked"]
                     /\ result' = [result EXCEPT ![p] = {}]
                     /\ UNCHANGED <<requests, api_url>>
                ELSE /\ requests' = Append(requests, Post(Unwrap(url), alerts))
                     /\ api_url' = Unwrap(url)
                     /\ pc' = [pc EXCEPT ![p] = "send"]
                     /\ result' = [result EXCEPT ![p] = {}]
    /\ UNCHANGED <<alertVars, errVars, given_url, transparent>>

\* push_alerts, up to its first await: the early return on an empty batch, the
\* join (whose expect panics on an error) and the request handed to send().
PushAlerts(p, alerts) ==
    /\ Begin(p, alerts)
    /\ IF alerts = <<>>
       THEN /\ pc' = [pc EXCEPT ![p] = "done"]
            /\ result' = [result EXCEPT ![p] = {Ok}]
            /\ UNCHANGED requests
       ELSE LET url == Join(api_url, AlertsPath)
            IN  IF url = None
                THEN /\ pc' = [pc EXCEPT ![p] = "panicked"]
                     /\ result' = [result EXCEPT ![p] = {}]
                     /\ UNCHANGED requests
                ELSE /\ requests' = Append(requests, Post(Unwrap(url), alerts))
                     /\ pc' = [pc EXCEPT ![p] = "send"]
                     /\ result' = [result EXCEPT ![p] = {}]
    /\ UNCHANGED <<alertVars, errVars, buildVars>>

\* push_alert
PushAlert(p, alert) == PushAlerts(p, <<alert>>)

\* send().await returns an error: map_err(AlertmanagerError::Request)?
SendFails(p, mw) ==
    /\ pc[p] = "send"
    /\ outcome' = [outcome EXCEPT ![p] = {[error |-> mw]}]
    /\ result' = [result EXCEPT ![p] = {RequestError(mw)}]
    /\ pc' = [pc EXCEPT ![p] = "done"]
    /\ UNCHANGED <<alertVars, errVars, buildVars, call, batch, status, retry, requests, calls>>

\* send().await returns a response: success returns Ok(()), anything else goes
\* on to read the body.
SendResponds(p, s) ==
    /\ pc[p] = "send"
    /\ status' = [status EXCEPT ![p] = {s}]
    /\ IF IsSuccess(s)
       THEN /\ outcome' = [outcome EXCEPT ![p] = {[status |-> s, text |-> None]}]
            /\ result' = [result EXCEPT ![p] = {Ok}]
            /\ pc' = [pc EXCEPT ![p] = "done"]
       ELSE /\ pc' = [pc EXCEPT ![p] = "text"]
            /\ UNCHANGED <<outcome, result>>
    /\ UNCHANGED <<alertVars, errVars, buildVars, call, batch, retry, requests, calls>>

\* response.text().await returns: the Api error with the status and the body text.
TextReturns(p, text) ==
    /\ pc[p] = "text"
    /\ outcome' = [outcome EXCEPT ![p] = {[status |-> Unwrap(status[p]), text |-> text]}]
    /\ result' = [result EXCEPT ![p] = {ApiErrorFrom(Unwrap(status[p]), text)}]
    /\ pc' = [pc EXCEPT ![p] = "done"]
    /\ UNCHANGED <<alertVars, errVars, buildVars, call, batch, status, retry, requests, calls>>

\* The caller asks the returned error whether it is retryable.
AskRetryable(p) ==
    /\ pc[p] = "done"
    /\ result[p] # {Ok}
    /\ retry[p] = {}
    /\ retry' = [retry EXCEPT ![p] = {IsRetryable(Unwrap(result[p]))}]
    /\ UNCHANGED <<alertVars, errVars, buildVars, pc, call, batch, outcome, status, result,
                   requests, calls>>

\* ------------------------------------------------------------ SpecAlert
Op(name, key, value) == [op |-> name, key |-> key, value |-> value]

Cur == trace[Len(trace)]

Apply(a, o) ==
    /\ Len(ops) < MaxOps
    /\ trace' = Append(trace, a)
    /\ ops' = Append(ops, o)
    /\ UNCHANGED <<ctor, errVars, clientVars>>

DoWithLabel ==
    \E k \in LabelKeys, v \in Texts :
        Apply(WithLabel(Cur, k, v), Op("with_label", k, v))
DoWithSeverity ==
    \E s \in Severities :
        Apply(WithSeverity(Cur, s), Op("with_severity", "", s))
DoWithAnnotation ==
    \E k \in AnnKeys, v \in Texts :
        Apply(WithAnnotation(Cur, k, v), Op("with_annotation", k, v))
DoWithSummary ==
    \E v \in Texts : Apply(WithSummary(Cur, v), Op("with_summary", "summary", v))
DoWithDescription ==
    \E v \in Texts : Apply(WithDescription(Cur, v), Op("with_description", "description", v))
DoWithGeneratorUrl ==
    \E v \in Texts : Apply(WithGeneratorUrl(Cur, v), Op("with_generator_url", "", v))
DoWithStartsAt ==
    \E t \in Times : Apply(WithStartsAt(Cur, t), Op("with_starts_at", "", t))
DoWithEndsAt ==
    \E t \in Times : Apply(WithEndsAt(Cur, t), Op("with_ends_at", "", t))
DoResolve ==
    \E now \in Times : Apply(Resolve(Cur, now), Op("resolve", "", now))

IdleErr ==
    /\ err = {}
    /\ verdict = {}
    /\ received = {}

IdleClient ==
    /\ pc = [p \in Callers |-> "idle"]
    /\ call = [p \in Callers |-> 0]
    /\ batch = [p \in Callers |-> <<>>]
    /\ outcome = [p \in Callers |-> {}]
    /\ status = [p \in Callers |-> {}]
    /\ result = [p \in Callers |-> {}]
    /\ retry = [p \in Callers |-> {}]
    /\ requests = <<>>
    /\ calls = [total |-> 0, nonempty |-> 0]

IdleBuild ==
    /\ Constructed(Url("http://localhost:9093", <<>>, FALSE))
    /\ transparent = FALSE

IdleAlert ==
    /\ ctor = <<"literal">>
    /\ trace = <<AlertLiteral>>
    /\ ops = <<>>

InitAlert ==
    /\ \/ \E n \in Names, now \in {ConstructedAt} :
            /\ ctor = <<"new", n>>
            /\ trace = <<AlertNew(n, now)>>
       \/ \E now \in {ConstructedAt} :
            /\ ctor = <<"default">>
            /\ trace = <<AlertDefault(now)>>
       \/ /\ ctor = <<"literal">>
          /\ trace = <<AlertLiteral>>
    /\ ops = <<>>
    /\ IdleErr
    /\ IdleBuild
    /\ IdleClient

NextAlert ==
    \/ DoWithLabel
    \/ DoWithSeverity
    \/ DoWithAnnotation
    \/ DoWithSummary
    \/ DoWithDescription
    \/ DoWithGeneratorUrl
    \/ DoWithStartsAt
    \/ DoWithEndsAt
    \/ DoResolve

SpecAlert == InitAlert /\ [][NextAlert]_vars

\* -------------------------------------------------------------- SpecErr
Messages == {"", "Bad request"}

\* Every error value the type admits.
ErrorValues ==
    {ApiError(s, m) : s \in 0..U16Max, m \in Messages}
        \cup {SerializeError, BuildHttpClientError}
        \cup {RequestError(mw) : mw \in TransportErrors}

\* An error value is constructed directly.
MakeError ==
    /\ err = {}
    /\ \E e \in ErrorValues : err' = {e}
    /\ UNCHANGED <<verdict, received, alertVars, clientVars>>

\* A push receives a non-success response and makes its error of it.
PushMakesError ==
    /\ err = {}
    /\ \E s \in HttpStatuses, text \in TextOutcomes :
        /\ ~IsSuccess(s)
        /\ err' = {ApiErrorFrom(s, text)}
        /\ received' = {s}
    /\ UNCHANGED <<verdict, alertVars, clientVars>>

Classify ==
    /\ err # {}
    /\ verdict = {}
    /\ verdict' = {IsRetryable(Unwrap(err))}
    /\ UNCHANGED <<err, received, alertVars, clientVars>>

InitErr ==
    /\ IdleErr
    /\ IdleAlert
    /\ Constructed(Url("http://localhost:9093", <<>>, FALSE))
    /\ transparent \in BOOLEAN
    /\ IdleClient

NextErr ==
    \/ MakeError
    \/ PushMakesError
    \/ Classify

SpecErr == InitErr /\ [][NextErr]_vars

\* ----------------------------------------------------------------- Spec
\* A client is constructed by new or with_client over any Url, against either
\* release of the middleware crate.
Init ==
    /\ \E url \in BaseUrls : Constructed(url)
    /\ transparent \in BOOLEAN
    /\ IdleClient
    /\ IdleErr
    /\ IdleAlert

Next ==
    \/ \E p \in Callers, b \in Batches : PushAlerts(p, b)
    \/ \E p \in Callers : PushAlert(p, A1)
    \/ \E p \in Callers, mw \in TransportErrors : SendFails(p, mw)
    \/ \E p \in Callers, s \in RespStatuses : SendResponds(p, s)
    \/ \E p \in Callers, text \in TextOutcomes : TextReturns(p, text)
    \/ \E p \in Callers : AskRetryable(p)

Spec == Init /\ [][Next]_vars

\* ---------------------------------------------------- claims on the client
\* What the request of a finished call came to decides what the call returned.
ResultFollowsOutcome(p) ==
    pc[p] = "done" =>
        \E o \in outcome[p] :
            IF "error" \in DOMAIN o
            THEN result[p] = {[kind |-> "Request", source |-> o.error]}
            ELSE IF 200 <= o.status /\ o.status <= 299
            THEN result[p] = {Ok}
            ELSE result[p] = {[kind |-> "Api", status |-> o.status,
                               message |-> IF o.text = None THEN "" ELSE Unwrap(o.text)]}

\* C1: every call of push_alerts with a non-empty batch returns by the outcome
\* of its one request: a Request error carrying the cause when the transport
\* fails, Ok(()) on a 2xx response, and on any other response an Api error with
\* the response's status and body text ("" when the body cannot be read); no
\* other outcome is possible.
C1_OutcomeDecidesResult ==
    \A p \in Callers :
        (pc[p] # "idle" /\ batch[p] # <<>>) =>
            /\ pc[p] \in {"send", "text", "done"}
            /\ ResultFollowsOutcome(p)

\* The same, for clients whose base URL can be a base.
OutcomeDecidesResultOnBase ==
    ~api_url.cannot_be_a_base => C1_OutcomeDecidesResult

\* Whether a connection failure or a timeout is among the causes of the failure.
CauseIsConnectOrTimeout(mw) ==
    \E i \in 1..Len(mw.chain) : mw.chain[i] \in {"connect", "TimedOut"}

\* C2: a Request error returned by push_alerts is retryable exactly when the
\* cause of the transport failure is a connection failure or a timeout; a
\* request that timed out is retryable, one that failed for another cause is not.
C2_RequestRetryableIffConnectOrTimeout ==
    \A p \in Callers :
        (retry[p] # {} /\ Unwrap(result[p]).kind = "Request") =>
            retry[p] = {CauseIsConnectOrTimeout(Unwrap(result[p]).source)}

\* The same, against a release whose source() answers the wrapped error.
RequestRetryableWhenNotTransparent ==
    ~transparent => C2_RequestRetryableIffConnectOrTimeout

\* The requests made for caller p's current call.
RequestsOf(p) == {i \in 1..Len(requests) : requests[i].call = call[p]}

\* C4: push_alerts with an empty batch returns Ok(()) and issues no request,
\* whatever the receiving service does: the sending step is never reached.
C4_EmptyBatchShortCircuit ==
    \A p \in Callers :
        (pc[p] # "idle" /\ batch[p] = <<>>) =>
            /\ pc[p] = "done"
            /\ result[p] = {Ok}
            /\ outcome[p] = {}
            /\ RequestsOf(p) = {}

C4_Witness ==
    \E p \in Callers, q \in Callers :
        /\ p # q
        /\ pc[p] = "done"
        /\ batch[p] = <<>>
        /\ call[p] > call[q]
        /\ pc[q] = "done"
        /\ Unwrap(result[q]).kind = "Request"
        /\ Len(requests) = 1

\* The endpoint the wire contract names: the base URL followed by /api/v2/alerts.
Endpoint(base) == [base EXCEPT !.path = base.path \o <<"api", "v2", "alerts">>]

\* C5: a call of push_alerts with a non-empty batch issues exactly one POST to
\* {base URL}/api/v2/alerts carrying the whole batch, whatever its outcome, and
\* over any interleaving of calls on one client the requests issued are as many
\* as the calls made with a non-empty batch.
C5_ExactlyOnePost ==
    /\ \A p \in Callers :
        (pc[p] # "idle" /\ batch[p] # <<>>) =>
            /\ Cardinality(RequestsOf(p)) = 1
            /\ \A i \in RequestsOf(p) :
                /\ requests[i].method = "POST"
                /\ requests[i].url = Endpoint(api_url)
                /\ Len(requests[i].body) = Len(batch[p])
                /\ \A k \in 1..Len(batch[p]) : requests[i].body[k] = Serialize(batch[p][k])
    /\ Len(requests) = calls.nonempty

\* The same, for clients whose base URL can be a base and has no path of its own.
ExactlyOnePostOnPlainBase ==
    (~api_url.cannot_be_a_base /\ api_url.path = <<>>) => C5_ExactlyOnePost

\* On every client a call issues at most one request, and none after it failed.
AtMostOnePost ==
    /\ \A p \in Callers : Cardinality(RequestsOf(p)) <= 1
    /\ Len(requests) <= calls.nonempty

\* What a finished call returns, by its own batch and the outcome of its own request.
ResultOf(alerts, o) ==
    IF alerts = <<>> THEN Ok
    ELSE IF "error" \in DOMAIN o THEN [kind |-> "Request", source |-> o.error]
    ELSE IF 200 <= o.status /\ o.status <= 299 THEN Ok
    ELSE [kind |-> "Api", status |-> o.status,
          message |-> IF o.text = None THEN "" ELSE Unwrap(o.text)]

\* C11: the client is not changed by use: api_url() is the URL passed at
\* construction after any interleaving of push_alerts / push_alert calls,
\* whatever their outcomes, and what a call returns is decided by its own batch
\* and its own request alone, not by earlier or concurrent calls.
C11_ClientUnchangedByUse ==
    /\ ApiUrl = given_url
    /\ \A p \in Callers :
        pc[p] = "done" =>
            /\ (batch[p] # <<>>) => outcome[p] # {}
            /\ \A o \in (IF batch[p] = <<>> THEN {[status |-> 200, text |-> None]}
                         ELSE outcome[p]) :
                   result[p] = {ResultOf(batch[p], o)}

C11_Witness ==
    \E p \in Callers, q \in Callers :
        /\ p # q
        /\ pc[p] = "done"
        /\ pc[q] = "done"
        /\ call[p] < call[q]
        /\ Unwrap(result[p]).kind = "Api"
        /\ Unwrap(result[q]).kind = "Request"
        /\ Len(requests) = 2
        /\ given_url.path # <<>>
        /\ ApiUrl = given_url

\* ------------------------------------------------ claims on is_retryable
\* C3: for an error that is not a Request error, is_retryable() depends on the
\* variant's own fields alone: for Api it is status >= 500, for every status a
\* u16 holds and whatever the message; for Serialize and BuildHttpClient it is
\* false. A push that receives 400 yields a non-retryable error, one that
\* receives 503 a retryable one.
C3_RetryableByFields ==
    verdict # {} =>
        LET e == Unwrap(err)
        IN  /\ e.kind = "Api" => verdict = {e.status >= 500}
            /\ e.kind \in {"Serialize", "BuildHttpClient"} => verdict = {FALSE}
            /\ received = {400} => (e.kind = "Api" /\ e.status = 400 /\ verdict = {FALSE})
            /\ received = {503} => (e.kind = "Api" /\ e.status = 503 /\ verdict = {TRUE})

C3_Witness ==
    /\ received = {503}
    /\ Unwrap(err).message = "Bad request"
    /\ verdict = {TRUE}

\* ------------------------------------------------- claims on the Alert model
\* JSON keys of the wire contract, as the receiving service spells them.
K_labels       == <<"l","a","b","e","l","s">>
K_annotations  == <<"a","n","n","o","t","a","t","i","o","n","s">>
K_startsAt     == <<"s","t","a","r","t","s","A","t">>
K_endsAt       == <<"e","n","d","s","A","t">>
K_generatorURL == <<"g","e","n","e","r","a","t","o","r","U","R","L">>
K_generatorUrl == <<"g","e","n","e","r","a","t","o","r","U","r","l">>

LowercaseName(s) == [Critical |-> "critical", Warning |-> "warning", Info |-> "info"][s]

\* The parts of the serialized form that do not involve the generator URL.
SerializedCommon(a, j) ==
    /\ K_labels \in DOMAIN j
    /\ K_annotations \in DOMAIN j
    /\ (K_startsAt \in DOMAIN j) <=> IsSome(a.starts_at)
    /\ (K_endsAt \in DOMAIN j) <=> IsSome(a.ends_at)
    /\ j[K_labels] = a.labels
    /\ j[K_annotations] = a.annotations
    /\ (  /\ ctor[1] = "new"
          /\ Len(ops) = 1
          /\ ops[1].op = "with_severity"
          /\ a = Cur)
       => /\ j[K_labels]["alertname"] = ctor[2]
          /\ j[K_labels]["severity"] = LowercaseName(ops[1].value)
          /\ K_startsAt \in DOMAIN j

\* C6: the serialized form of every alert always has the keys labels and
\* annotations, has startsAt, endsAt and generatorURL each exactly when the
\* field is present, and its labels object is the alert's label map unchanged;
\* Alert::new(n).with_severity(s) serializes with alertname = n, severity = the
\* lowercase name of s and startsAt present.
C6_SerializedForm ==
    LET j == Serialize(Cur)
    IN  /\ SerializedCommon(Cur, j)
        /\ (K_generatorURL \in DOMAIN j) <=> IsSome(Cur.generator_url)

\* What the derive emits instead: the same, with the generator URL under the key
\* generatorUrl, and no key besides the five.
SerializedAsEmitted ==
    LET j == Serialize(Cur)
    IN  /\ SerializedCommon(Cur, j)
        /\ (K_generatorUrl \in DOMAIN j) <=> IsSome(Cur.generator_url)
        /\ K_generatorURL \notin DOMAIN j
        /\ DOMAIN j \subseteq {K_labels, K_annotations, K_startsAt, K_endsAt, K_generatorUrl}

\* Two consecutive builder calls i, i+1 that write the same label key.
LabelKeyOf(o) == IF o.op = "with_severity" THEN "severity" ELSE o.key
LabelValueOf(o) == IF o.op = "with_severity" THEN LowercaseName(o.value) ELSE o.value
SameKeyTwice(i) ==
    /\ i \in 1..(Len(ops) - 1)
    /\ ops[i].op \in {"with_label", "with_severity"}
    /\ ops[i + 1].op = ops[i].op
    /\ LabelKeyOf(ops[i]) = LabelKeyOf(ops[i + 1])

\* C7: a.with_label(k, v1).with_label(k, v2) maps k to v2, keeps every other
\* label of a with its value, adds no key but k, and leaves annotations,
\* starts_at, ends_at and generator_url as they were; the same for two
\* with_severity calls, which write only the key "severity".
C7_LastWriteWins ==
    \A i \in 1..Len(ops) :
        SameKeyTwice(i) =>
            LET a == trace[i]
                r == trace[i + 2]
                k == LabelKeyOf(ops[i + 1])
            IN  /\ k \in DOMAIN r.labels
                /\ r.labels[k] = LabelValueOf(ops[i + 1])
                /\ DOMAIN r.labels = DOMAIN a.labels \cup {k}
                /\ \A x \in DOMAIN a.labels \ {k} : r.labels[x] = a.labels[x]
                /\ r.annotations = a.annotations
                /\ r.starts_at = a.starts_at
                /\ r.ends_at = a.ends_at
                /\ r.generator_url = a.generator_url

C7_Witness ==
    \E i \in 1..Len(ops) :
        /\ SameKeyTwice(i)
        /\ ops[i].value # ops[i + 1].value
        /\ LabelKeyOf(ops[i]) \in DOMAIN trace[i].labels
        /\ trace[i].labels[LabelKeyOf(ops[i])] # ops[i + 1].value
        /\ DOMAIN trace[i].labels \ {LabelKeyOf(ops[i])} # {}

\* Whether one of the first i builder calls is a with_label on "alertname".
WroteAlertname(i) ==
    \E j \in 1..i : ops[j].op = "with_label" /\ ops[j].key = "alertname"

\* C8: Alert::new(n) has labels {alertname: n}, no annotations, starts_at
\* present, ends_at and generator_url absent, so alertname() is Some(n); after
\* any builder calls the key alertname is still there, and alertname() is still
\* Some(n) unless a with_label call wrote the key "alertname".
C8_AlertnameKept ==
    ctor[1] = "new" =>
        /\ DOMAIN trace[1].labels = {"alertname"}
        /\ trace[1].labels["alertname"] = ctor[2]
        /\ DOMAIN trace[1].annotations = {}
        /\ IsSome(trace[1].starts_at)
        /\ trace[1].ends_at = None
        /\ trace[1].generator_url = None
        /\ Alertname(trace[1]) = Some(ctor[2])
        /\ \A i \in 1..Len(ops) :
            /\ "alertname" \in DOMAIN trace[i + 1].labels
            /\ IsSome(Alertname(trace[i + 1]))
            /\ ~WroteAlertname(i) => Alertname(trace[i + 1]) = Some(ctor[2])

C8_Witness ==
    /\ ctor[1] = "new"
    /\ Len(ops) >= 2
    /\ \E j \in 1..Len(ops) : ops[j].op = "with_label" /\ ops[j].key # "alertname"
    /\ \E j \in 1..Len(ops) : ops[j].op = "with_severity"
    /\ ~WroteAlertname(Len(ops))
    /\ Alertname(Cur) = Some(ctor[2])

\* The label keys the first i builder calls wrote.
KeysWritten(i) ==
    {LabelKeyOf(ops[j]) : j \in {x \in 1..i : ops[x].op \in {"with_label", "with_severity"}}}

\* C9: from Alert::new(n) on, no builder call shrinks the set of label keys or
\* of annotation keys, or takes starts_at, ends_at or generator_url from present
\* to absent; the number of labels is the number of distinct label keys written,
\* alertname included.
C9_Monotonic ==
    ctor[1] = "new" =>
        /\ \A i \in 1..Len(ops) :
            /\ DOMAIN trace[i].labels \subseteq DOMAIN trace[i + 1].labels
            /\ DOMAIN trace[i].annotations \subseteq DOMAIN trace[i + 1].annotations
            /\ IsSome(trace[i].starts_at) => IsSome(trace[i + 1].starts_at)
            /\ IsSome(trace[i].ends_at) => IsSome(trace[i + 1].ends_at)
            /\ IsSome(trace[i].generator_url) => IsSome(trace[i + 1].generator_url)
        /\ Cardinality(DOMAIN Cur.labels)
             = Cardinality({"alertname"} \cup KeysWritten(Len(ops)))

C9_Witness ==
    /\ ctor[1] = "new"
    /\ Len(ops) = 3
    /\ ops[1].op = "with_annotation"
    /\ ops[2].op = "with_summary"
    /\ ops[3].op = "with_annotation"
    /\ ops[3].key = ops[1].key
    /\ Cardinality(DOMAIN Cur.annotations) = 2

\* C10: a.resolve() has ends_at present, also when a already had one (it is
\* overwritten), and its labels, annotations, starts_at and generator_url are
\* those of a.
C10_ResolveFrame ==
    \A i \in 1..Len(ops) :
        ops[i].op = "resolve" =>
            /\ IsSome(trace[i + 1].ends_at)
            /\ trace[i + 1].ends_at = Some(ops[i].value)
            /\ trace[i + 1].labels = trace[i].labels
            /\ trace[i + 1].annotations = trace[i].annotations
            /\ trace[i + 1].starts_at = trace[i].starts_at
            /\ trace[i + 1].generator_url = trace[i].generator_url

C10_Witness ==
    \E i \in 1..Len(ops) :
        /\ ops[i].op = "resolve"
        /\ IsSome(trace[i].ends_at)
        /\ trace[i].ends_at # Some(ops[i].value)
        /\ IsSome(trace[i].starts_at)
        /\ DOMAIN trace[i].labels # {}

====
